---------------------------- MODULE Spec2Model ----------------------------
(***************************************************************************)
(* A model of the untyped-core toolchain of the repository:                *)
(*   - the phase-two driver eval_phase_two and its raw-bytes variant       *)
(*     eval_phase_two_raw (crates/uplc/src/tx.rs),                         *)
(*   - the term model, Program::apply*, the conversions between the name   *)
(*     forms and is_valid_script_result (crates/uplc/src/ast.rs).          *)
(*   - the equality of names (crates/uplc/src/ast.rs),                     *)
(*   - the zig-zag functions and the integer decoders of the flat codec.   *)
(* Specification Spec is the driver; SpecTerm is the term functions;       *)
(* SpecName is the equality of names; SpecFlat is the integers of the     *)
(* flat codec (crates/flat/src/zigzag.rs, crates/flat/src/decode.rs);      *)
(* SpecMachine is the machine under Program::eval, SpecMachineFair the     *)
(* same with the machine's loop running on; SpecApply is                   *)
(* Project::apply_parameter, SpecScripts is Project::eval_scripts and      *)
(* SpecCompile is Project::compile (crates/aiken-project/src/lib.rs).      *)
(***************************************************************************)
EXTENDS Integers, Sequences, FiniteSets, TLC

VARIABLES
    \* ---- the driver (tx.rs) ----
    redeemers,            \* tx.transaction_witness_set.redeemer : <<>> (None) or <<rs>> (Some)
    phase_one_ok,         \* whether the transaction passes the phase-one checks
    run_phase_one,        \* the argument of eval_phase_two
    initial_budget,       \* Option<&ExBudget>: <<>> or <<[cpu, mem]>>
    entry,                \* "none" | "direct" (eval_phase_two) | "raw" (eval_phase_two_raw)
    pc,                   \* position in the running call
    lookup_table,         \* the table built at tx.rs:38
    iter,                 \* what is left of rs.iter()
    collected_redeemers,  \* tx.rs:47
    result,               \* what eval_phase_two returned
    raw_result,           \* what eval_phase_two_raw returned, or that it panicked
    phase_one_calls,      \* history: number of calls of eval_phase_one
    machine_runs,         \* history: the calls of eval_redeemer, <<redeemer, budget, table>>
    \* ---- the term functions (ast.rs) ----
    input,                \* the program an operation is applied to
    op,                   \* the last operation applied
    out,                  \* its result
    applied,              \* history: the arguments given to apply*, in order
    \* ---- the equality of names (ast.rs) ----
    lhs,                  \* self of PartialEq::eq
    rhs,                  \* other of PartialEq::eq
    eq_out,               \* <<>> or <<b>>: what lhs == rhs returned
    hash_out,             \* <<>> or <<h1, h2>>: the hashes of lhs and rhs
    \* ---- the integers of the flat codec (zigzag.rs, decode.rs) ----
    flat_in,              \* the argument: <<"isize", x>>, <<"usize", u>>, <<"bigint", b>>,
                          \* <<"integer", r>> or <<"word", r>> (r what the decoder returned)
    overflow_checks,      \* whether the build checks integer overflow (debug) or wraps (release)
    flat_op,              \* the function applied
    flat_out,             \* <<"none">>, <<"value", v, overflowed>>, <<"Ok", v>>, <<"Err", e>> or <<"panic">>
    \* ---- the machine under Program::eval (ast.rs, machine) ----
    eval_term,            \* self.term of the program evaluated
    ex_budget,            \* machine.ex_budget: the remaining [cpu, mem]
    mstate,               \* <<"Idle">>, <<"Compute", term, env, stack>>, <<"Done", value>> or <<"Error", e>>
    unbudgeted_steps,     \* steps taken since the last budget inspection
    \* ---- Project::apply_parameter (aiken-project lib.rs) ----
    blueprint_file,       \* plutus.json: <<>> (missing or invalid) or <<validators>>
    selection,            \* [title, purpose]: each <<>> (None) or <<x>> (Some)
    apply_fails,          \* whether validator.apply(param) rejects the parameter
    applied_blueprint,    \* <<"none">>, <<"Ok", validators>> or <<"Err", e>>
    \* ---- Project::eval_scripts (aiken-project lib.rs) ----
    scripts,              \* the argument scripts
    match_tests,          \* Option<Vec<String>>: <<>> or <<patterns>>
    exact_match,          \* the argument exact_match
    eval_pc,              \* "idle" | "filter" | "par" | "returned"
    selected,             \* the scripts left by the filter
    infos,                \* one slot per selected script: <<>> or <<EvalInfo>>
    finished,             \* history: the positions in the order their evaluation ended
    returned,             \* <<>> or <<the Vec<EvalInfo> returned>>
    \* ---- Project::compile (aiken-project lib.rs) ----
    files,                \* the project's source files, in the order they are read
    dep_files,            \* the source files of the dependency package
    type_ok,              \* whether the modules pass type checking
    code_gen_mode,        \* options.code_gen_mode: "Build" | "Test" | "NoOp"
    test_results,         \* the success of each EvalInfo eval_scripts returns
    defined_modules,      \* self.defined_modules: module name -> <<>> or <<path>>
    sources,              \* self.sources: the pending sources
    comp_pc,              \* <<"idle">> or <<stage, step>> of the running call
    last_parse,           \* history: the last call of parse_sources and its result
    calls                 \* history: the calls of compile that returned

txvars == <<redeemers, phase_one_ok, run_phase_one, initial_budget, entry, pc,
            lookup_table, iter, collected_redeemers, result, raw_result,
            phase_one_calls, machine_runs>>
termvars == <<input, op, out, applied>>
namevars == <<lhs, rhs, eq_out, hash_out>>
flatvars == <<flat_in, overflow_checks, flat_op, flat_out>>
machvars == <<eval_term, ex_budget, mstate, unbudgeted_steps>>
projvars == <<blueprint_file, selection, apply_fails, applied_blueprint>>
evalvars == <<scripts, match_tests, exact_match, eval_pc, selected, infos, finished, returned>>
compvars == <<files, dep_files, type_ok, code_gen_mode, test_results, defined_modules,
              sources, comp_pc, last_parse, calls>>
restvars == <<namevars, flatvars, machvars, projvars, evalvars, compvars>>
vars == <<txvars, termvars, restvars>>

-----------------------------------------------------------------------------
(* Bounds *)

\* The longest redeemer list of a transaction.
MaxRedeemers == 2

\* The scaled width, in bits, of the budget integers (64 in the program).
BudgetBits == 4

\* The largest number of nodes of a term given to a conversion.
MaxTermSize == 5

\* The longest chain of apply, apply_term and apply_data calls.
MaxApply == 2

-----------------------------------------------------------------------------
(* Helpers *)

Range(s) == {s[k] : k \in 1..Len(s)}

SeqsUpTo(S, n) == UNION {[1..k -> S] : k \in 0..n}

RECURSIVE Pow2(_)
Pow2(n) == IF n = 0 THEN 1 ELSE 2 * Pow2(n - 1)

-----------------------------------------------------------------------------
(* The components a specification leaves alone stay in their idle state. *)

\* No two names are being compared.
NameIdle ==
    /\ lhs = <<>>
    /\ rhs = <<>>
    /\ eq_out = <<>>
    /\ hash_out = <<>>

\* No codec function is being applied.
FlatIdle ==
    /\ flat_in = <<"none">>
    /\ overflow_checks = FALSE
    /\ flat_op = "none"
    /\ flat_out = <<"none">>

\* No program is being evaluated.
MachIdle ==
    /\ eval_term = <<"Error">>
    /\ ex_budget = [cpu |-> 0, mem |-> 0]
    /\ mstate = <<"Idle">>
    /\ unbudgeted_steps = 0

\* apply_parameter is not called.
ProjIdle ==
    /\ blueprint_file = <<>>
    /\ selection = [title |-> <<>>, purpose |-> <<>>]
    /\ apply_fails = FALSE
    /\ applied_blueprint = <<"none">>

\* eval_scripts is not called.
EvalIdle ==
    /\ scripts = <<>>
    /\ match_tests = <<>>
    /\ exact_match = FALSE
    /\ eval_pc = "idle"
    /\ selected = <<>>
    /\ infos = <<>>
    /\ finished = <<>>
    /\ returned = <<>>

\* compile is not called.
CompIdle ==
    /\ files = <<>>
    /\ dep_files = <<>>
    /\ type_ok = TRUE
    /\ code_gen_mode = "NoOp"
    /\ test_results = <<>>
    /\ defined_modules = <<>>
    /\ sources = <<>>
    /\ comp_pc = <<"idle">>
    /\ last_parse = <<>>
    /\ calls = <<>>

RestIdle == NameIdle /\ FlatIdle /\ MachIdle /\ ProjIdle /\ EvalIdle /\ CompIdle


-----------------------------------------------------------------------------
(* The phase-two driver: crates/uplc/src/tx.rs *)

\* RedeemerTag, in the order of the purposes.
RedeemerTags == <<"Spend", "Mint">>

TagRank(tag) == CHOOSE k \in 1..Len(RedeemerTags) : RedeemerTags[k] = tag

\* A redeemer of the witness set: its pointer (tag, index), whether the
\* transaction holds a script for it, and the units its script consumes
\* (an abstraction of the redeemer data, the script and the datum).
Redeemers ==
    {r \in [tag : Range(RedeemerTags), index : 0..1, has_script : BOOLEAN, cost : 1..2] :
        ~r.has_script => r.cost = 1}

\* ExBudget { cpu, mem } values a caller hands in (cost_model.rs is i64).
ExBudgets == {[cpu |-> c, mem |-> c] : c \in 1..2}

\* ExBudget::default(), used when no initial budget is given (ast.rs:645).
ExBudgetDefault == [cpu |-> 3, mem |-> 3]

NoResult == [kind |-> "none", redeemers |-> <<>>, err |-> ""]
Ok(rs) == [kind |-> "Ok", redeemers |-> rs, err |-> ""]
Err(e) == [kind |-> "Err", redeemers |-> <<>>, err |-> e]

\* get_script_and_datum_lookup_table(tx, utxos): the redeemers of the
\* transaction for which a script is found.
get_script_and_datum_lookup_table(rsOpt) ==
    IF rsOpt = <<>> THEN {} ELSE {r \in Range(rsOpt[1]) : r.has_script}

\* eval::eval_redeemer: find the script, run the machine on a copy of the
\* initial budget (Program::eval_as, ast.rs:643-657), and write the consumed
\* budget into the redeemer as its ex-units.
eval_redeemer(redeemer, table, budgetOpt) ==
    LET budget == IF budgetOpt = <<>> THEN ExBudgetDefault ELSE budgetOpt[1]
        remaining == [cpu |-> budget.cpu - redeemer.cost,
                      mem |-> budget.mem - redeemer.cost]
    IN  IF redeemer \notin table THEN Err("MissingScript")
        ELSE IF remaining.cpu < 0 \/ remaining.mem < 0 THEN Err("OutOfBudget")
        ELSE Ok(<<[tag |-> redeemer.tag, index |-> redeemer.index,
                   ex_units |-> [mem |-> budget.mem - remaining.mem,
                                 steps |-> budget.cpu - remaining.cpu]]>>)

\* tx.rs:40: the phase-one checks run only when the caller asks for them.
\* (faulty variant: the checks run whatever the flag)
RunsPhaseOneAlways(flag) == TRUE
RunsPhaseOne(flag) == flag

\* tx.rs:49: the redeemers are visited in the order of the witness set.
SortedByPointer(rs) ==
    \A a, b \in 1..Len(rs) :
        a < b => \/ TagRank(rs[a].tag) < TagRank(rs[b].tag)
                 \/ /\ rs[a].tag = rs[b].tag
                    /\ rs[a].index <= rs[b].index
PermsOf(rs) ==
    {p \in [1..Len(rs) -> 1..Len(rs)] : \A a, b \in 1..Len(rs) : a # b => p[a] # p[b]}
\* (variant: the redeemers sorted by purpose, then index)
RsIterSorted(rs) ==
    LET p == CHOOSE q \in PermsOf(rs) : SortedByPointer([k \in 1..Len(rs) |-> rs[q[k]]])
    IN  [k \in 1..Len(rs) |-> rs[p[k]]]
RsIter(rs) == rs

\* tx.rs:57: each call of eval_redeemer is handed the caller's initial budget.
RECURSIVE SpentCpu(_)
SpentCpu(rs) == IF rs = <<>> THEN 0 ELSE rs[1].ex_units.steps + SpentCpu(Tail(rs))
\* (faulty variant: what the earlier redeemers left of the budget)
BudgetArgShared(budgetOpt, collected) ==
    LET b == IF budgetOpt = <<>> THEN ExBudgetDefault ELSE budgetOpt[1]
    IN  <<[cpu |-> b.cpu - SpentCpu(collected), mem |-> b.mem - SpentCpu(collected)]>>
BudgetArg(budgetOpt, collected) == budgetOpt

\* tx.rs:50-60: one round of the loop: the `?` returns the error at once,
\* otherwise the evaluated redeemer is pushed.
\* (faulty variant: a failing redeemer is skipped and the loop goes on)
LoopBodySkipErr(collected, r) ==
    IF r.kind = "Err" THEN [pc |-> "loop", collected |-> collected, result |-> NoResult]
    ELSE [pc |-> "loop", collected |-> collected \o r.redeemers, result |-> NoResult]
LoopBody(collected, r) ==
    IF r.kind = "Err" THEN [pc |-> "returned", collected |-> collected, result |-> r]
    ELSE [pc |-> "loop", collected |-> collected \o r.redeemers, result |-> NoResult]

\* `as i64` of a u64 (tx.rs:142-143), at the model's width.
as_i64(u) == IF u >= Pow2(BudgetBits - 1) THEN u - Pow2(BudgetBits) ELSE u

TermIdle ==
    /\ input = [form |-> "none", version |-> <<0, 0, 0>>, term |-> <<"Error">>]
    /\ op = "none"
    /\ out = [ok |-> TRUE, version |-> <<0, 0, 0>>, term |-> <<"Error">>, err |-> <<>>]
    /\ applied = <<>>

InitTx ==
    /\ redeemers \in {<<>>} \cup {<<rs>> : rs \in SeqsUpTo(Redeemers, MaxRedeemers)}
    /\ phase_one_ok \in BOOLEAN
    /\ run_phase_one \in BOOLEAN
    /\ initial_budget \in {<<>>} \cup {<<b>> : b \in ExBudgets}
    /\ entry = "none"
    /\ pc = "idle"
    /\ lookup_table = {}
    /\ iter = <<>>
    /\ collected_redeemers = <<>>
    /\ result = NoResult
    /\ raw_result = "none"
    /\ phase_one_calls = 0
    /\ machine_runs = <<>>

inputs == <<redeemers, phase_one_ok, run_phase_one>>

\* A caller calls eval_phase_two(tx, utxos, cost_mdls, initial_budget, sc, run_phase_one).
CallEvalPhaseTwo ==
    /\ pc = "idle"
    /\ entry' = "direct"
    /\ pc' = "start"
    /\ UNCHANGED <<termvars, restvars, inputs, initial_budget, lookup_table, iter, collected_redeemers,
                   result, raw_result, phase_one_calls, machine_runs>>

\* tx.rs:135-159: eval_phase_two_raw decodes its arguments; each decode is
\* unwrapped, so bytes that do not decode panic.  The budget is cast to i64.
RawDecode ==
    /\ pc = "idle"
    /\ entry' = "raw"
    /\ \E tx_decodes \in {"Babbage", "Alonzo", "Undecodable"},
          cost_mdls_decode \in BOOLEAN, utxos_decode \in BOOLEAN,
          cpu \in {1, 2, Pow2(BudgetBits) - 1} :
          \/ /\ tx_decodes = "Undecodable" \/ ~cost_mdls_decode \/ ~utxos_decode
             /\ pc' = "raw_returned"
             /\ raw_result' = "panic"
             /\ UNCHANGED initial_budget
          \/ /\ tx_decodes = "Alonzo" /\ cost_mdls_decode /\ utxos_decode
             \* tx.rs:188: todo!("Wrong era. Please use babbage")
             /\ pc' = "raw_returned"
             /\ raw_result' = "panic"
             /\ UNCHANGED initial_budget
          \/ /\ tx_decodes = "Babbage" /\ cost_mdls_decode /\ utxos_decode
             /\ pc' = "start"
             /\ initial_budget' = <<[cpu |-> as_i64(cpu), mem |-> as_i64(cpu)]>>
             /\ UNCHANGED raw_result
    /\ UNCHANGED <<termvars, restvars, inputs, lookup_table, iter, collected_redeemers, result,
                   phase_one_calls, machine_runs>>

\* tx.rs:36-43: build the lookup table, then the optional phase-one checks.
PhaseOne ==
    /\ pc = "start"
    /\ lookup_table' = get_script_and_datum_lookup_table(redeemers)
    /\ IF RunsPhaseOne(run_phase_one)
       THEN /\ phase_one_calls' = phase_one_calls + 1
            /\ IF phase_one_ok
               THEN pc' = "match" /\ UNCHANGED result
               ELSE pc' = "returned" /\ result' = Err("PhaseOne")
       ELSE pc' = "match" /\ UNCHANGED <<phase_one_calls, result>>
    /\ UNCHANGED <<termvars, restvars, inputs, initial_budget, entry, iter, collected_redeemers,
                   raw_result, machine_runs>>

\* tx.rs:45-47 and 65: match redeemers.
MatchRedeemers ==
    /\ pc = "match"
    /\ IF redeemers = <<>>
       THEN pc' = "returned" /\ result' = Ok(<<>>) /\ UNCHANGED iter
       ELSE pc' = "loop" /\ iter' = RsIter(redeemers[1]) /\ UNCHANGED result
    /\ UNCHANGED <<termvars, restvars, inputs, initial_budget, entry, lookup_table, collected_redeemers,
                   raw_result, phase_one_calls, machine_runs>>

\* tx.rs:49-61: one redeemer is evaluated.
EvalNext ==
    /\ pc = "loop"
    /\ iter # <<>>
    /\ LET budget == BudgetArg(initial_budget, collected_redeemers)
           r == eval_redeemer(Head(iter), lookup_table, budget)
           next == LoopBody(collected_redeemers, r)
       IN  /\ machine_runs' = Append(machine_runs, <<Head(iter), budget, lookup_table>>)
           /\ pc' = next.pc
           /\ collected_redeemers' = next.collected
           /\ result' = next.result
    /\ iter' = Tail(iter)
    /\ UNCHANGED <<termvars, restvars, inputs, initial_budget, entry, lookup_table, raw_result, phase_one_calls>>

\* tx.rs:63: the loop is over.
LoopDone ==
    /\ pc = "loop"
    /\ iter = <<>>
    /\ pc' = "returned"
    /\ result' = Ok(collected_redeemers)
    /\ UNCHANGED <<termvars, restvars, inputs, initial_budget, entry, lookup_table, iter, collected_redeemers,
                   raw_result, phase_one_calls, machine_runs>>

\* tx.rs:163-178: eval_phase_two_raw turns the result into Redeemers or a JsError.
RawReturn ==
    /\ pc = "returned"
    /\ entry = "raw"
    /\ pc' = "raw_returned"
    /\ raw_result' = IF result.kind = "Ok" THEN "Ok" ELSE "Err"
    /\ UNCHANGED <<termvars, restvars, inputs, initial_budget, entry, lookup_table, iter, collected_redeemers,
                   result, phase_one_calls, machine_runs>>

Next ==
    \/ CallEvalPhaseTwo
    \/ RawDecode
    \/ PhaseOne
    \/ MatchRedeemers
    \/ EvalNext
    \/ LoopDone
    \/ RawReturn

Init == InitTx /\ TermIdle /\ RestIdle

Spec == Init /\ [][Next]_vars

-----------------------------------------------------------------------------
(* The term model: crates/uplc/src/ast.rs *)

\* Term<T> (ast.rs:179-202), as tagged tuples:
\*   <<"Var", n>>  <<"Delay", t>>  <<"Lambda", n, body>>  <<"Apply", f, a>>
\*   <<"Constant", c>>  <<"Force", t>>  <<"Error">>  <<"Builtin", f>>
\* T is Name [text, unique], NamedDeBruijn [text, index] or DeBruijn [index].
Var(n) == <<"Var", n>>
Delay(t) == <<"Delay", t>>
Lambda(n, body) == <<"Lambda", n, body>>
Apply(f, a) == <<"Apply", f, a>>
Constant(c) == <<"Constant", c>>
Force(t) == <<"Force", t>>
ErrorTerm == <<"Error">>

Name(text, unique) == [text |-> text, unique |-> unique]
NamedDeBruijn(text, index) == [text |-> text, index |-> index]
DeBruijn(index) == [index |-> index]

\* From<DeBruijn> for NamedDeBruijn (ast.rs:419-427): the fake name "i".
NamedDeBruijnFromDeBruijn(d) == NamedDeBruijn("i", d.index)

\* The terms with exactly n nodes over the given leaves and binders.
RECURSIVE TermsOfSize(_, _, _)
TermsOfSize(n, leaves, binders) ==
    IF n = 1 THEN leaves
    ELSE LET sub == TermsOfSize(n - 1, leaves, binders)
         IN  {Delay(t) : t \in sub} \cup {Force(t) : t \in sub}
             \cup {Lambda(b, t) : b \in binders, t \in sub}
             \cup UNION {{Apply(f, a) : f \in TermsOfSize(k, leaves, binders),
                                            a \in TermsOfSize(n - 1 - k, leaves, binders)} :
                         k \in 1..(n - 2)}

TermsUpTo(n, leaves, binders) == UNION {TermsOfSize(k, leaves, binders) : k \in 1..n}

NameX == Name("x", 0)
NameY == Name("y", 1)

\* The named terms, the de Bruijn terms and the named de Bruijn terms the
\* conversions are applied to; open terms and the index 0 are among them.
NamedTerms == TermsUpTo(MaxTermSize, {Var(NameX), Var(NameY), Constant(<<"Unit">>)}, {NameX, NameY})
DeBruijnTerms ==
    TermsUpTo(MaxTermSize, {Var(DeBruijn(0)), Var(DeBruijn(1)), Var(DeBruijn(2)), ErrorTerm},
              {DeBruijn(0)})

\* The terms a machine run may return, and the programs apply is called on.
ResultTerms ==
    TermsUpTo(2, {ErrorTerm, Constant(<<"Bool", FALSE>>), Constant(<<"Bool", TRUE>>),
                  Constant(<<"Unit">>), Constant(<<"Integer", 0>>),
                  Var(NamedDeBruijn("i", 1)), <<"Builtin", "addInteger">>},
              {NamedDeBruijn("i", 0)})

Version1 == <<1, 0, 0>>
Version2 == <<2, 0, 0>>

\* ---- the name translator (crate::debruijn::Converter) ----

ConvOk(t, next) == [ok |-> TRUE, term |-> t, err |-> <<>>, next |-> next]
ConvErr(e) == [ok |-> FALSE, term |-> <<>>, err |-> e, next |-> 0]

\* The position in the stack of the innermost binder of a unique, 0 if none.
InnermostBinder(bound, unique) ==
    LET hits == {k \in 1..Len(bound) : bound[k] = unique}
    IN  IF hits = {} THEN 0 ELSE CHOOSE k \in hits : \A j \in hits : j <= k

\* Converter::get_index: the depth at the use-site minus the depth at the
\* binding-site plus one; FreeUnique when the binder is not on the stack.
get_index(bound, name) ==
    LET k == InnermostBinder(bound, name.unique)
    IN  IF k = 0 THEN ConvErr(<<"FreeUnique", name.unique>>)
        ELSE ConvOk(Len(bound) - k + 1, 0)

\* Converter::name_to_named_debruijn / name_to_debruijn: the walk over a
\* named term with the stack of the bound uniques; `named` keeps the texts.
RECURSIVE walk_names(_, _, _)
walk_names(term, bound, named) ==
    LET mk(n, i) == IF named THEN NamedDeBruijn(n.text, i) ELSE DeBruijn(i)
    IN  CASE term[1] = "Var" ->
                 LET i == get_index(bound, term[2])
                 IN  IF i.ok THEN ConvOk(Var(mk(term[2], i.term)), 0) ELSE i
          [] term[1] = "Delay" ->
                 LET r == walk_names(term[2], bound, named)
                 IN  IF r.ok THEN ConvOk(Delay(r.term), 0) ELSE r
          [] term[1] = "Force" ->
                 LET r == walk_names(term[2], bound, named)
                 IN  IF r.ok THEN ConvOk(Force(r.term), 0) ELSE r
          [] term[1] = "Lambda" ->
                 LET r == walk_names(term[3], Append(bound, term[2].unique), named)
                 IN  IF r.ok THEN ConvOk(Lambda(mk(term[2], 0), r.term), 0) ELSE r
          [] term[1] = "Apply" ->
                 LET f == walk_names(term[2], bound, named)
                 IN  IF ~f.ok THEN f
                     ELSE LET a == walk_names(term[3], bound, named)
                          IN  IF a.ok THEN ConvOk(Apply(f.term, a.term), 0) ELSE a
          [] OTHER -> ConvOk(term, 0)

name_to_named_debruijn(term) == walk_names(term, <<>>, TRUE)
name_to_debruijn(term) == walk_names(term, <<>>, FALSE)

\* Converter::get_unique: the name bound `index` binders up the stack;
\* FreeIndex when the index is 0 or reaches past the stack.
\* (faulty variant: the index 0 is taken for the next binder)
get_unique_NoZeroCheck(names, index, next) ==
    IF index > Len(names) THEN ConvErr(<<"FreeIndex", index>>)
    ELSE IF index = 0 THEN ConvOk(next, next)
    ELSE ConvOk(names[Len(names) - index + 1], next)
\* (faulty variant: the stack is counted from the outermost binder)
get_unique_Outermost(names, index, next) ==
    IF index = 0 \/ index > Len(names) THEN ConvErr(<<"FreeIndex", index>>)
    ELSE ConvOk(names[index], next)
get_unique(names, index, next) ==
    IF index = 0 \/ index > Len(names) THEN ConvErr(<<"FreeIndex", index>>)
    ELSE ConvOk(names[Len(names) - index + 1], next)

\* Converter::named_debruijn_to_name / debruijn_to_name: the walk over a
\* de Bruijn term with the stack of the names of the enclosing binders; each
\* binder gets the next unique of the translation session.
RECURSIVE walk_indices(_, _, _, _)
walk_indices(term, names, next, named) ==
    LET text(n) == IF named THEN n.text ELSE "i"
    IN  CASE term[1] = "Var" ->
                 LET u == get_unique(names, term[2].index, next)
                 IN  IF u.ok THEN ConvOk(Var(Name(text(term[2]), u.term)), next) ELSE u
          [] term[1] = "Delay" ->
                 LET r == walk_indices(term[2], names, next, named)
                 IN  IF r.ok THEN ConvOk(Delay(r.term), r.next) ELSE r
          [] term[1] = "Force" ->
                 LET r == walk_indices(term[2], names, next, named)
                 IN  IF r.ok THEN ConvOk(Force(r.term), r.next) ELSE r
          [] term[1] = "Lambda" ->
                 LET r == walk_indices(term[3], Append(names, next), next + 1, named)
                 IN  IF r.ok THEN ConvOk(Lambda(Name(text(term[2]), next), r.term), r.next)
                     ELSE r
          [] term[1] = "Apply" ->
                 LET f == walk_indices(term[2], names, next, named)
                 IN  IF ~f.ok THEN f
                     ELSE LET a == walk_indices(term[3], names, f.next, named)
                          IN  IF a.ok THEN ConvOk(Apply(f.term, a.term), a.next) ELSE a
          [] OTHER -> ConvOk(term, next)

named_debruijn_to_name(term) == walk_indices(term, <<>>, 0, TRUE)
debruijn_to_name(term) == walk_indices(term, <<>>, 0, FALSE)

\* Converter::debruijn_to_named_debruijn: every index gets the fake name.
RECURSIVE debruijn_to_named_debruijn(_)
debruijn_to_named_debruijn(term) ==
    CASE term[1] = "Var" -> Var(NamedDeBruijnFromDeBruijn(term[2]))
      [] term[1] = "Delay" -> Delay(debruijn_to_named_debruijn(term[2]))
      [] term[1] = "Force" -> Force(debruijn_to_named_debruijn(term[2]))
      [] term[1] = "Lambda" ->
             Lambda(NamedDeBruijnFromDeBruijn(term[2]), debruijn_to_named_debruijn(term[3]))
      [] term[1] = "Apply" ->
             Apply(debruijn_to_named_debruijn(term[2]), debruijn_to_named_debruijn(term[3]))
      [] OTHER -> term

\* ---- the conversions of ast.rs ----

Converted(version, t) == [ok |-> TRUE, version |-> version, term |-> t, err |-> <<>>]
Failed(e) == [ok |-> FALSE, version |-> <<>>, term |-> <<>>, err |-> e]

\* TryFrom<Term<Name>> for Term<NamedDeBruijn> (ast.rs:444-454).
\* (faulty variant: a failed conversion yields Term::Error as its result)
TermNamedDeBruijnFromName_Unchecked(value) ==
    LET r == name_to_named_debruijn(value)
    IN  IF r.ok THEN Converted(<<>>, r.term) ELSE Converted(<<>>, ErrorTerm)
TermNamedDeBruijnFromName(value) ==
    LET r == name_to_named_debruijn(value)
    IN  IF r.ok THEN Converted(<<>>, r.term) ELSE Failed(r.err)

\* TryFrom<Term<Name>> for Term<DeBruijn> (ast.rs:471-481).
TermDeBruijnFromName(value) ==
    LET r == name_to_debruijn(value)
    IN  IF r.ok THEN Converted(<<>>, r.term) ELSE Failed(r.err)

\* TryFrom<Term<NamedDeBruijn>> for Term<Name> (ast.rs:494-504).
TermNameFromNamedDeBruijn(value) ==
    LET r == named_debruijn_to_name(value)
    IN  IF r.ok THEN Converted(<<>>, r.term) ELSE Failed(r.err)

\* TryFrom<Term<DeBruijn>> for Term<Name> (ast.rs:551-561).
TermNameFromDeBruijn(value) ==
    LET r == debruijn_to_name(value)
    IN  IF r.ok THEN Converted(<<>>, r.term) ELSE Failed(r.err)

\* The TryFrom impls of Program (ast.rs:431-440, 458-467, 483-492, 540-549):
\* the version is kept and the term converted; `?` passes the error on.
WithVersion(version, r) == IF r.ok THEN Converted(version, r.term) ELSE r
ProgramNamedDeBruijnFromName(value) ==
    WithVersion(value.version, TermNamedDeBruijnFromName(value.term))
ProgramDeBruijnFromName(value) ==
    WithVersion(value.version, TermDeBruijnFromName(value.term))
ProgramNameFromNamedDeBruijn(value) ==
    WithVersion(value.version, TermNameFromNamedDeBruijn(value.term))
ProgramNameFromDeBruijn(value) ==
    WithVersion(value.version, TermNameFromDeBruijn(value.term))

\* ---- Program::apply, apply_term, apply_data (ast.rs:49-86) ----

Program(version, term) == [version |-> version, term |-> term]

apply(self, program) == Program(self.version, Apply(self.term, program.term))

\* (faulty variant: function and argument swapped)
apply_term_Swapped(self, term) == Program(self.version, Apply(term, self.term))
apply_term(self, term) == Program(self.version, Apply(self.term, term))

apply_data(self, plutus_data) ==
    Program(self.version, Apply(self.term, Constant(<<"Data", plutus_data>>)))

\* ---- Term<NamedDeBruijn>::is_valid_script_result (ast.rs:676-680) ----

is_valid_script_result(self) == ~(self = ErrorTerm)

\* ---- the operations, applied to bounded inputs ----

TxIdle ==
    /\ redeemers = <<>>
    /\ phase_one_ok = TRUE
    /\ run_phase_one = FALSE
    /\ initial_budget = <<>>
    /\ entry = "none"
    /\ pc = "idle"
    /\ lookup_table = {}
    /\ iter = <<>>
    /\ collected_redeemers = <<>>
    /\ result = NoResult
    /\ raw_result = "none"
    /\ phase_one_calls = 0
    /\ machine_runs = <<>>

InputOf(form, version, term) == [form |-> form, version |-> version, term |-> term]

InitTermInputs ==
    /\ \/ input \in {InputOf("name", Version1, t) : t \in NamedTerms}
       \/ input \in {InputOf("debruijn", Version1, t) : t \in DeBruijnTerms}
       \/ input \in {InputOf("named_debruijn", Version1, debruijn_to_named_debruijn(t)) :
                        t \in DeBruijnTerms}
       \/ input \in {InputOf("program", v, t) : v \in {Version1, Version2}, t \in ResultTerms}
    /\ op = "none"
    /\ out = <<>>
    /\ applied = <<>>

InputProgram == Program(input.version, input.term)

\* Program<Name> -> Program<NamedDeBruijn>.
ToNamedDeBruijn ==
    /\ input.form = "name" /\ op = "none"
    /\ op' = "to_named_debruijn"
    /\ out' = ProgramNamedDeBruijnFromName(InputProgram)
    /\ UNCHANGED <<txvars, restvars, input, applied>>

\* Program<Name> -> Program<DeBruijn>.
ToDeBruijn ==
    /\ input.form = "name" /\ op = "none"
    /\ op' = "to_debruijn"
    /\ out' = ProgramDeBruijnFromName(InputProgram)
    /\ UNCHANGED <<txvars, restvars, input, applied>>

\* The program converted to named de Bruijn form is converted back.
BackFromNamedDeBruijn ==
    /\ op = "to_named_debruijn" /\ out.ok
    /\ op' = "round_trip_named"
    /\ out' = ProgramNameFromNamedDeBruijn(Program(out.version, out.term))
    /\ UNCHANGED <<txvars, restvars, input, applied>>

\* The program converted to de Bruijn form is converted back.
BackFromDeBruijn ==
    /\ op = "to_debruijn" /\ out.ok
    /\ op' = "round_trip"
    /\ out' = ProgramNameFromDeBruijn(Program(out.version, out.term))
    /\ UNCHANGED <<txvars, restvars, input, applied>>

\* Program<NamedDeBruijn> -> Program<Name>.
FromNamedDeBruijn ==
    /\ input.form = "named_debruijn" /\ op = "none"
    /\ op' = "from_named_debruijn"
    /\ out' = ProgramNameFromNamedDeBruijn(InputProgram)
    /\ UNCHANGED <<txvars, restvars, input, applied>>

\* Program<DeBruijn> -> Program<Name>.
FromDeBruijn ==
    /\ input.form = "debruijn" /\ op = "none"
    /\ op' = "from_debruijn"
    /\ out' = ProgramNameFromDeBruijn(InputProgram)
    /\ UNCHANGED <<txvars, restvars, input, applied>>

\* The term a machine run returned is judged.
IsValidScriptResult ==
    /\ input.form = "program" /\ op = "none"
    /\ op' = "is_valid_script_result"
    /\ out' = [valid |-> is_valid_script_result(input.term)]
    /\ UNCHANGED <<txvars, restvars, input, applied>>

ApplyOps == {"apply", "apply_term", "apply_data"}

\* The receiver of the next call: the input, or the result of the last call.
Receiver == IF op = "none" THEN InputProgram ELSE out

CanApply ==
    /\ input.form = "program"
    /\ op \in {"none"} \cup ApplyOps
    /\ Len(applied) < MaxApply

CallApply ==
    /\ CanApply
    /\ \E program \in {Program(Version2, Constant(<<"Unit">>))} :
          /\ out' = apply(Receiver, program)
          /\ applied' = Append(applied, program.term)
    /\ op' = "apply"
    /\ UNCHANGED <<txvars, restvars, input>>

CallApplyTerm ==
    /\ CanApply
    /\ \E term \in {Constant(<<"Integer", 0>>), Var(NamedDeBruijn("i", 1))} :
          /\ out' = apply_term(Receiver, term)
          /\ applied' = Append(applied, term)
    /\ op' = "apply_term"
    /\ UNCHANGED <<txvars, restvars, input>>

CallApplyData ==
    /\ CanApply
    /\ \E plutus_data \in {<<"BigInt", 0>>, <<"BoundedBytes", <<>>>>} :
          /\ out' = apply_data(Receiver, plutus_data)
          /\ applied' = Append(applied, Constant(<<"Data", plutus_data>>))
    /\ op' = "apply_data"
    /\ UNCHANGED <<txvars, restvars, input>>

NextTerm ==
    \/ ToNamedDeBruijn
    \/ ToDeBruijn
    \/ BackFromNamedDeBruijn
    \/ BackFromDeBruijn
    \/ FromNamedDeBruijn
    \/ FromDeBruijn
    \/ IsValidScriptResult
    \/ CallApply
    \/ CallApplyTerm
    \/ CallApplyData

InitTerm == TxIdle /\ RestIdle /\ InitTermInputs

SpecTerm == InitTerm /\ [][NextTerm]_vars

-----------------------------------------------------------------------------
(* Properties of the driver *)

Pointer(r) == <<r.tag, r.index>>
Pointers(rs) == [k \in 1..Len(rs) |-> Pointer(rs[k])]

\* What a call of eval_redeemer recorded in machine_runs returned.
RunResult(run) == eval_redeemer(run[1], run[3], run[2])

\* eval_phase_two has returned to its caller.
Returned == result # NoResult

\* C1: eval_phase_two is all-or-nothing and fail-fast.  A call of
\* eval_redeemer that returned an error is the last one made, and its error
\* is what eval_phase_two returns (with no list of redeemers); every earlier
\* call succeeded.  When eval_phase_two returns Ok, it returns exactly one
\* evaluated redeemer per redeemer of the witness set, and the empty list
\* when the witness set has none.
C1_FailFast ==
    /\ \A k \in 1..Len(machine_runs) :
          RunResult(machine_runs[k]).kind = "Err" =>
              /\ k = Len(machine_runs)
              /\ result = RunResult(machine_runs[k])
              /\ result.redeemers = <<>>
              /\ pc \in {"returned", "raw_returned"}
    /\ (Returned /\ result.kind = "Ok") =>
          IF redeemers = <<>> THEN result.redeemers = <<>>
          ELSE /\ Len(result.redeemers) = Len(redeemers[1])
               /\ Len(machine_runs) = Len(redeemers[1])
               /\ \A k \in 1..Len(machine_runs) :
                     /\ machine_runs[k][1] = redeemers[1][k]
                     /\ RunResult(machine_runs[k]) = Ok(<<result.redeemers[k]>>)
    /\ (Returned /\ result.kind = "Err" /\ result.err # "PhaseOne") =>
          /\ machine_runs # <<>>
          /\ result = RunResult(machine_runs[Len(machine_runs)])

\* C1's case: the second redeemer failed after the first succeeded; the
\* error is returned and the redeemer collected so far is not.
C1_Witness ==
    /\ Returned /\ result.kind = "Err"
    /\ Len(machine_runs) = 2
    /\ Len(collected_redeemers) = 1
    /\ result.redeemers = <<>>

\* C2 as stated: the redeemers are evaluated, and returned, ordered by
\* purpose and then by index, whatever their order in the witness set.
C2_OrderedByPurposeThenIndex ==
    /\ SortedByPointer([k \in 1..Len(machine_runs) |-> machine_runs[k][1]])
    /\ (Returned /\ result.kind = "Ok") => SortedByPointer(result.redeemers)

\* C2 amended: the redeemers are evaluated, and returned, in the order they
\* have in the transaction's witness set.
C2_WitnessSetOrder ==
    /\ machine_runs # <<>> =>
          /\ redeemers # <<>>
          /\ Len(machine_runs) <= Len(redeemers[1])
          /\ \A k \in 1..Len(machine_runs) : machine_runs[k][1] = redeemers[1][k]
    /\ (Returned /\ result.kind = "Ok" /\ redeemers # <<>>) =>
          Pointers(result.redeemers) = Pointers(redeemers[1])

\* C2's case: a witness set that is not ordered by pointer was evaluated
\* to the end.
C2_Witness ==
    /\ Returned /\ result.kind = "Ok"
    /\ redeemers # <<>>
    /\ Len(redeemers[1]) = 2
    /\ ~SortedByPointer(redeemers[1])

\* C3: with run_phase_one the phase-one checks run exactly once, before any
\* redeemer is evaluated (also when there are no redeemers), and their
\* failure is returned with no redeemer evaluated; without run_phase_one
\* they never run.
C3_PhaseOneFirst ==
    /\ phase_one_calls <= 1
    /\ ~run_phase_one => phase_one_calls = 0
    /\ (run_phase_one /\ (pc \in {"match", "loop", "returned"} \/ Returned)) =>
          phase_one_calls = 1
    /\ (run_phase_one /\ machine_runs # <<>>) => (phase_one_calls = 1 /\ phase_one_ok)
    /\ (run_phase_one /\ ~phase_one_ok /\ Returned) =>
          (result = Err("PhaseOne") /\ machine_runs = <<>>)
    /\ result = Err("PhaseOne") => (run_phase_one /\ ~phase_one_ok /\ machine_runs = <<>>)

\* C3's case: phase one was asked for and failed on a transaction that has
\* redeemers.
C3_Witness ==
    /\ run_phase_one /\ ~phase_one_ok
    /\ Returned
    /\ redeemers # <<>> /\ redeemers[1] # <<>>
    /\ phase_one_calls = 1

\* C4: every redeemer is evaluated from the same initial budget and the same
\* lookup table, so what is computed for a redeemer is what evaluating it
\* alone computes, whatever was evaluated before it.
C4_FreshBudget ==
    /\ \A k \in 1..Len(machine_runs) :
          /\ machine_runs[k][2] = initial_budget
          /\ machine_runs[k][3] = get_script_and_datum_lookup_table(redeemers)
    /\ \A k \in 1..Len(collected_redeemers) :
          Ok(<<collected_redeemers[k]>>) =
              eval_redeemer(redeemers[1][k],
                            get_script_and_datum_lookup_table(redeemers),
                            initial_budget)

\* C4's case: two redeemers were evaluated whose costs together exceed the
\* initial budget.
C4_Witness ==
    /\ Len(collected_redeemers) = 2
    /\ LET b == IF initial_budget = <<>> THEN ExBudgetDefault ELSE initial_budget[1]
       IN  collected_redeemers[1].ex_units.steps
             + collected_redeemers[2].ex_units.steps > b.cpu

\* C6 as stated: eval_phase_two_raw reports every failure as a returned
\* error and never aborts.
C6_RawNeverAborts == raw_result # "panic"

-----------------------------------------------------------------------------
(* Properties of the term functions *)

\* C5 as stated: a script result is valid exactly when the returned term is
\* neither Error nor the constant Bool false.
C5_ValidIffNotErrorNorFalse ==
    op = "is_valid_script_result" =>
        (out.valid <=> ~(input.term = ErrorTerm
                         \/ input.term = Constant(<<"Bool", FALSE>>)))

\* The receiver's term applied to the arguments, in their order.
RECURSIVE ApplyAll(_, _)
ApplyAll(term, args) ==
    IF args = <<>> THEN term
    ELSE ApplyAll(<<"Apply", term, Head(args)>>, Tail(args))

\* C7: apply, apply_term and apply_data return a program with the
\* receiver's version whose term is Apply{function: the receiver's term,
\* argument: the argument given}; so after a chain of calls the term is the
\* first receiver's term applied to the arguments in the order of the calls.
C7_ApplyInOrder ==
    op \in ApplyOps =>
        /\ applied # <<>>
        /\ out.version = input.version
        /\ out.term[1] = "Apply"
        /\ out.term[2] = ApplyAll(input.term, SubSeq(applied, 1, Len(applied) - 1))
        /\ out.term[3] = applied[Len(applied)]
        /\ out.term = ApplyAll(input.term, applied)

\* C7's case: two different arguments were applied one after the other.
C7_Witness ==
    /\ op \in ApplyOps
    /\ Len(applied) = 2
    /\ applied[1] # applied[2]
    /\ out.term = <<"Apply", <<"Apply", input.term, applied[1]>>, applied[2]>>

\* The uniques of the variables of a named term that no enclosing lambda
\* with the same unique binds.
RECURSIVE FreeUniques(_, _)
FreeUniques(t, bound) ==
    CASE t[1] = "Var" -> IF t[2].unique \in bound THEN {} ELSE {t[2].unique}
      [] t[1] \in {"Delay", "Force"} -> FreeUniques(t[2], bound)
      [] t[1] = "Lambda" -> FreeUniques(t[3], bound \cup {t[2].unique})
      [] t[1] = "Apply" -> FreeUniques(t[2], bound) \cup FreeUniques(t[3], bound)
      [] OTHER -> {}

\* C8: the conversion of a named program to named de Bruijn or de Bruijn
\* form succeeds exactly when every variable is bound by an enclosing lambda
\* with the same unique; otherwise it fails with FreeUnique of the unique of
\* a free variable and returns no term.
C8_FreeUnique ==
    op \in {"to_named_debruijn", "to_debruijn"} =>
        LET free == FreeUniques(input.term, {})
        IN  /\ out.ok <=> free = {}
            /\ out.ok => out.version = input.version
            /\ ~out.ok => /\ out.err[1] = "FreeUnique"
                          /\ out.err[2] \in free
                          /\ out.term = <<>>

\* C8's case: a variable under a lambda is free all the same, and the
\* conversion failed.
C8_Witness ==
    /\ op = "to_debruijn"
    /\ ~out.ok
    /\ input.term = Lambda(NameX, Apply(Var(NameX), Var(NameY)))
    /\ out.err = <<"FreeUnique", 1>>

\* A term with every variable replaced by the place of the lambda that
\* binds it (the path from the root), and every binder's name dropped.
RECURSIVE Links(_, _, _)
Links(t, env, path) ==
    CASE t[1] = "Var" ->
             LET hits == {k \in 1..Len(env) : env[k][1] = t[2].unique}
             IN  <<"Var", IF hits = {} THEN <<0>>
                          ELSE env[CHOOSE k \in hits : \A j \in hits : j <= k][2]>>
      [] t[1] \in {"Delay", "Force"} -> <<t[1], Links(t[2], env, Append(path, 1))>>
      [] t[1] = "Lambda" ->
             <<"Lambda", Links(t[3], Append(env, <<t[2].unique, path>>), Append(path, 1))>>
      [] t[1] = "Apply" ->
             <<"Apply", Links(t[2], env, Append(path, 1)), Links(t[3], env, Append(path, 2))>>
      [] OTHER -> t

\* C9: converting a closed named program to de Bruijn form and back
\* succeeds and yields the same structure with every variable bound by the
\* same lambda (the uniques and texts may differ), shadowing included.
C9_RoundTrip ==
    op \in {"round_trip", "round_trip_named"} =>
        /\ out.ok
        /\ out.version = input.version
        /\ Links(out.term, <<>>, <<>>) = Links(input.term, <<>>, <<>>)

\* C9's case: an inner lambda shadows the outer one with the same unique,
\* and the outer one is used after the inner scope; the names come back
\* changed.
C9_Witness ==
    /\ op = "round_trip"
    /\ input.term = Lambda(NameX, Apply(Lambda(NameX, Var(NameX)), Var(NameX)))
    /\ out.ok
    /\ out.term # input.term

\* Some variable of a de Bruijn term has an index that is 0 or greater than
\* the number of lambdas enclosing it.
RECURSIVE HasFreeIndex(_, _)
HasFreeIndex(t, depth) ==
    CASE t[1] = "Var" -> t[2].index = 0 \/ t[2].index > depth
      [] t[1] \in {"Delay", "Force"} -> HasFreeIndex(t[2], depth)
      [] t[1] = "Lambda" -> HasFreeIndex(t[3], depth + 1)
      [] t[1] = "Apply" -> HasFreeIndex(t[2], depth) \/ HasFreeIndex(t[3], depth)
      [] OTHER -> FALSE

\* C10: the conversion of a de Bruijn or named de Bruijn program to named
\* form succeeds for every closed term, and fails with FreeIndex whenever a
\* variable has an index that is 0 or greater than the number of lambdas
\* enclosing it.
C10_FreeIndex ==
    op \in {"from_debruijn", "from_named_debruijn"} =>
        /\ out.ok <=> ~HasFreeIndex(input.term, 0)
        /\ out.ok => out.version = input.version
        /\ ~out.ok => (out.err[1] = "FreeIndex" /\ out.term = <<>>)

\* C10's case: the index 0 under a lambda, refused.
C10_Witness ==
    /\ op = "from_debruijn"
    /\ input.term = Lambda(DeBruijn(0), Var(DeBruijn(0)))
    /\ ~out.ok
    /\ out.err = <<"FreeIndex", 0>>

-----------------------------------------------------------------------------
(* The equality of names: crates/uplc/src/ast.rs *)

\* The largest unique and the largest index of the names compared.
MaxUnique == 2

\* The texts of the names compared.
NameTexts == {"x", "y", "z"}

\* Name { text, unique } (ast.rs:281-285).
Names == {Name(t, u) : t \in NameTexts, u \in 0..MaxUnique}

\* NamedDeBruijn { text, index } (ast.rs:338-342).
NamedDeBruijns == {NamedDeBruijn(t, i) : t \in NameTexts, i \in 0..MaxUnique}

\* The equality #[derive(PartialEq)] would give: every field is compared.
name_eq_Derived(self, other) == self.text = other.text /\ self.unique = other.unique

\* impl PartialEq for Name (ast.rs:294-298): self.unique == other.unique.
name_eq(self, other) == self.unique = other.unique

\* impl PartialEq for NamedDeBruijn (ast.rs:344-348): self.index == other.index.
named_debruijn_eq(self, other) == self.index = other.index

\* lhs == rhs on two Name values.
NameEq ==
    /\ eq_out = <<>>
    /\ lhs \in Names
    /\ eq_out' = <<name_eq(lhs, rhs)>>
    /\ UNCHANGED <<txvars, termvars, flatvars, machvars, projvars, evalvars, compvars, lhs, rhs, hash_out>>

\* lhs == rhs on two NamedDeBruijn values.
NamedDeBruijnEq ==
    /\ eq_out = <<>>
    /\ lhs \in NamedDeBruijns
    /\ eq_out' = <<named_debruijn_eq(lhs, rhs)>>
    /\ UNCHANGED <<txvars, termvars, flatvars, machvars, projvars, evalvars, compvars, lhs, rhs, hash_out>>

\* impl Hash for Name (ast.rs:287-292): the text and then the unique are
\* written to the hasher.  A hash is given as the data written: a hasher is
\* a function of that data, made to tell different data apart.
name_hash(self) == <<self.text, self.unique>>

\* Both Name values are hashed, as a hash map does on insert and on lookup.
NameHash ==
    /\ hash_out = <<>>
    /\ lhs \in Names
    /\ hash_out' = <<name_hash(lhs), name_hash(rhs)>>
    /\ UNCHANGED <<txvars, termvars, flatvars, machvars, projvars, evalvars, compvars, lhs, rhs, eq_out>>

NextName ==
    \/ NameEq
    \/ NamedDeBruijnEq
    \/ NameHash

\* Two values of the same type are at hand.
InitName ==
    /\ TxIdle /\ TermIdle /\ FlatIdle /\ MachIdle /\ ProjIdle /\ EvalIdle /\ CompIdle
    /\ \E S \in {Names, NamedDeBruijns} : lhs \in S /\ rhs \in S
    /\ eq_out = <<>>
    /\ hash_out = <<>>

SpecName == InitName /\ [][NextName]_vars

\* C11: two Name values are equal exactly when their uniques are equal,
\* whatever their texts, and two NamedDeBruijn values are equal exactly when
\* their indices are equal.
C11_EqByUniqueOrIndex ==
    eq_out # <<>> =>
        /\ lhs \in Names => (eq_out[1] <=> lhs.unique = rhs.unique)
        /\ lhs \in NamedDeBruijns => (eq_out[1] <=> lhs.index = rhs.index)

\* Two names of different texts and the same unique compared equal.
C11_Witness ==
    /\ lhs \in Names
    /\ lhs.text # rhs.text
    /\ lhs.unique = rhs.unique
    /\ eq_out = <<TRUE>>

-----------------------------------------------------------------------------
(* The integers of the flat codec: crates/flat/src/zigzag.rs, decode.rs *)

\* The scaled width, in bits, of isize and usize (64 in the program).
WordBits == 4

\* The scaled width of i128: twice the machine word, as in the program.
WideBits == 2 * WordBits

\* isize, usize and i128 at these widths.
ISizeMin == -Pow2(WordBits - 1)
ISize == ISizeMin..(Pow2(WordBits - 1) - 1)
USize == 0..(Pow2(WordBits) - 1)
I128 == (-Pow2(WideBits - 1))..(Pow2(WideBits - 1) - 1)

\* BigInt values: they go beyond i128 on both sides.
BigInts == (-Pow2(WideBits))..(Pow2(WideBits) - 1)

\* The unsigned w-bit pattern of n, and the signed value of a pattern.
as_unsigned(n, w) == n % Pow2(w)
wrap_signed(n, w) ==
    LET m == n % Pow2(w) IN IF m >= Pow2(w - 1) THEN m - Pow2(w) ELSE m

\* a ^ b on unsigned w-bit patterns, bit by bit.
RECURSIVE BitXor(_, _, _)
BitXor(a, b, w) ==
    IF w = 0 THEN 0
    ELSE (((a % 2) + (b % 2)) % 2) + 2 * BitXor(a \div 2, b \div 2, w - 1)

\* a ^ b on signed w-bit integers.
xor_signed(a, b, w) == wrap_signed(BitXor(as_unsigned(a, w), as_unsigned(b, w), w), w)

Value(v, overflowed) == <<"value", v, overflowed>>
Panic == <<"panic">>

\* zigzag::to_usize (zigzag.rs:4-12).  x << 1 drops the bit shifted out.
\* -double_x overflows when double_x is isize::MIN, and then so does - 1:
\* a build with overflow checks panics there, a build without them wraps.
to_usize(x, checks) ==
    LET double_x == wrap_signed(2 * x, WordBits) IN
    IF x > 0 \/ x = 0
    THEN Value(as_unsigned(double_x, WordBits), FALSE)
    ELSE LET neg_overflows == double_x = ISizeMin
             neg == wrap_signed(-double_x, WordBits)
             sub_overflows == neg = ISizeMin
             sub == wrap_signed(neg - 1, WordBits)
         IN  IF neg_overflows \/ sub_overflows
             THEN IF checks THEN Panic ELSE Value(as_unsigned(sub, WordBits), TRUE)
             ELSE Value(as_unsigned(sub, WordBits), FALSE)

\* zigzag::to_isize (zigzag.rs:14-16): ((u >> 1) as isize) ^ (-((u & 1) as isize)).
to_isize(u) == xor_signed(u \div 2, -(u % 2), WordBits)

\* zigzag::to_bigint (zigzag.rs:18-22): b.to_i128().unwrap() panics when b
\* is not an i128; otherwise (b >> 1) ^ (-(b & 1)) in i128.
to_bigint(b) ==
    IF b \notin I128
    THEN Panic
    ELSE Value(xor_signed(b \div 2, -(b % 2), WideBits), FALSE)

\* The errors of the codec.
CodecErrors == {"BufferNotByteAligned", "EndOfBuffer", "UnknownTermTag", "UnknownConstTag",
                "IntegerOverflow"}

\* What Decoder::integer returns: an error or Ok of a BigInt.
IntegerResults == {<<"Err", e>> : e \in CodecErrors} \cup {<<"Ok", b>> : b \in BigInts}

\* What Decoder::word returns: an error or Ok of an unsigned word.
WordResults == {<<"Err", e>> : e \in CodecErrors} \cup {<<"Ok", u>> : u \in USize}

\* impl Decode for isize (decode.rs:34-38): d.integer().map(|b| b.to_isize().unwrap()).
decode_isize(r) ==
    IF r[1] = "Err" THEN r
    ELSE IF r[2] \in ISize THEN <<"Ok", r[2]>> ELSE Panic

\* impl Decode for BigInt (decode.rs:40-44): d.integer().
decode_bigint(r) == r

\* impl Decode for usize (decode.rs:46-50): d.word().map(|b| b.to_usize().unwrap()).
decode_usize(r) ==
    IF r[1] = "Err" THEN r
    ELSE IF r[2] \in USize THEN <<"Ok", r[2]>> ELSE Panic

ToUsize ==
    /\ flat_op = "none"
    /\ flat_in[1] = "isize"
    /\ flat_op' = "to_usize"
    /\ flat_out' = to_usize(flat_in[2], overflow_checks)
    /\ UNCHANGED <<txvars, termvars, namevars, machvars, projvars, evalvars, compvars, flat_in,
                   overflow_checks>>

ToIsize ==
    /\ flat_op = "none"
    /\ flat_in[1] = "usize"
    /\ flat_op' = "to_isize"
    /\ flat_out' = Value(to_isize(flat_in[2]), FALSE)
    /\ UNCHANGED <<txvars, termvars, namevars, machvars, projvars, evalvars, compvars, flat_in,
                   overflow_checks>>

\* to_isize(to_usize(x)): a panic or an overflow of to_usize is kept.
RoundTrip ==
    /\ flat_op = "none"
    /\ flat_in[1] = "isize"
    /\ flat_op' = "round_trip"
    /\ LET u == to_usize(flat_in[2], overflow_checks) IN
       flat_out' = IF u = Panic THEN Panic ELSE Value(to_isize(u[2]), u[3])
    /\ UNCHANGED <<txvars, termvars, namevars, machvars, projvars, evalvars, compvars, flat_in,
                   overflow_checks>>

ToBigint ==
    /\ flat_op = "none"
    /\ flat_in[1] = "bigint"
    /\ flat_op' = "to_bigint"
    /\ flat_out' = to_bigint(flat_in[2])
    /\ UNCHANGED <<txvars, termvars, namevars, machvars, projvars, evalvars, compvars, flat_in,
                   overflow_checks>>

DecodeIsize ==
    /\ flat_op = "none"
    /\ flat_in[1] = "integer"
    /\ flat_op' = "decode_isize"
    /\ flat_out' = decode_isize(flat_in[2])
    /\ UNCHANGED <<txvars, termvars, namevars, machvars, projvars, evalvars, compvars, flat_in,
                   overflow_checks>>

DecodeBigInt ==
    /\ flat_op = "none"
    /\ flat_in[1] = "integer"
    /\ flat_op' = "decode_bigint"
    /\ flat_out' = decode_bigint(flat_in[2])
    /\ UNCHANGED <<txvars, termvars, namevars, machvars, projvars, evalvars, compvars, flat_in,
                   overflow_checks>>

DecodeUsize ==
    /\ flat_op = "none"
    /\ flat_in[1] = "word"
    /\ flat_op' = "decode_usize"
    /\ flat_out' = decode_usize(flat_in[2])
    /\ UNCHANGED <<txvars, termvars, namevars, machvars, projvars, evalvars, compvars, flat_in,
                   overflow_checks>>

NextFlat ==
    \/ ToUsize
    \/ ToIsize
    \/ RoundTrip
    \/ ToBigint
    \/ DecodeIsize
    \/ DecodeBigInt
    \/ DecodeUsize

\* One argument of one of the functions, and the kind of build.
InitFlat ==
    /\ TxIdle /\ TermIdle /\ NameIdle /\ MachIdle /\ ProjIdle /\ EvalIdle /\ CompIdle
    /\ flat_in \in ({<<"isize", x>> : x \in ISize} \cup {<<"usize", u>> : u \in USize}
                    \cup {<<"bigint", b>> : b \in BigInts}
                    \cup {<<"integer", r>> : r \in IntegerResults}
                    \cup {<<"word", r>> : r \in WordResults})
    /\ overflow_checks \in BOOLEAN
    /\ flat_op = "none"
    /\ flat_out = <<"none">>

SpecFlat == InitFlat /\ [][NextFlat]_vars

\* C12: for every signed machine integer x, the minimum and the maximum
\* included, to_isize(to_usize(x)) = x, computed without overflow or abort.
C12_RoundTripNoOverflow ==
    flat_op = "round_trip" => flat_out = Value(flat_in[2], FALSE)

\* (x << 1) XOR (x >> (w - 1)) as an unsigned w-bit value; the arithmetic
\* shift gives 0 for x >= 0 and -1 for x < 0.
ZigZag(x, w) == BitXor(as_unsigned(2 * x, w), as_unsigned(IF x < 0 THEN -1 ELSE 0, w), w)

\* C13: for every signed w-bit integer x, to_usize(x) equals
\* (x << 1) XOR (x >> (w - 1)) as an unsigned w-bit value.
C13_ToUsizeIsZigZag ==
    flat_op = "to_usize" =>
        /\ flat_out[1] = "value"
        /\ flat_out[2] = ZigZag(flat_in[2], WordBits)

\* (b >> 1) XOR -(b & 1) on integers of any magnitude, for b >= 0.
ZigZagDecode(b) == IF (b % 2) = 0 THEN b \div 2 ELSE (-(b \div 2)) - 1

\* C14: for every non-negative b of any magnitude, to_bigint(b) returns
\* (b >> 1) XOR -(b & 1) and does not fail or abort.
C14_ToBigintAnyMagnitude ==
    (flat_op = "to_bigint" /\ flat_in[2] >= 0) => flat_out = Value(ZigZagDecode(flat_in[2]), FALSE)

\* C15: the decoders for isize and usize return the codec error
\* IntegerOverflow as a value when the decoded number does not fit, and
\* pass every error of the decoder through unchanged.
C15_OverflowIsAnError ==
    /\ flat_op = "decode_isize" =>
          flat_out = IF flat_in[2][1] = "Err" THEN flat_in[2]
                     ELSE IF flat_in[2][2] \in ISize THEN flat_in[2]
                     ELSE <<"Err", "IntegerOverflow">>
    /\ flat_op = "decode_usize" =>
          flat_out = IF flat_in[2][1] = "Err" THEN flat_in[2]
                     ELSE IF flat_in[2][2] \in USize THEN flat_in[2]
                     ELSE <<"Err", "IntegerOverflow">>

-----------------------------------------------------------------------------
(* The machine under Program::eval: crates/uplc/src/ast.rs:597-616.  The   *)
(* machine itself is described by sections 4.3 and 4.4 of the design.      *)

\* The largest cpu and the largest mem of an initial budget.
MaxBudget == 3

\* The slippage Program::eval hands to Machine::new (ast.rs:610).
Slippage == 200

\* A step that costs nothing.
StepCostFree(kind) == [cpu |-> 0, mem |-> 0]

\* The cost of a step of a kind (Constant, Var, Lambda, Apply, Delay,
\* Force), scaled: strictly positive in cpu.
StepCost(kind) == [cpu |-> 1, mem |-> 1]

\* The programs evaluated: closed and open, halting and diverging.
MachinePrograms ==
    LET x == NamedDeBruijn("x", 0)
        x1 == Var(NamedDeBruijn("x", 1))
        unit == Constant(<<"Unit">>)
        self_apply == Lambda(x, Apply(x1, x1))
    IN  { Apply(self_apply, self_apply),
          Apply(Lambda(x, x1), unit),
          Apply(Lambda(x, ErrorTerm), unit),
          Apply(Lambda(x, unit), ErrorTerm),
          Apply(unit, unit),
          Force(Delay(unit)),
          Force(unit),
          Delay(ErrorTerm),
          Lambda(x, x1),
          ErrorTerm,
          x1,
          unit }

\* A value is returned into the continuation.
return_compute(stack, value) ==
    IF stack = <<>> THEN <<"Done", value>>
    ELSE LET frame == Head(stack)
             rest == Tail(stack)
         IN  CASE frame[1] = "FArg" ->
                    <<"Compute", frame[2], frame[3], <<<<"FFun", value>>>> \o rest>>
               [] frame[1] = "FFun" ->
                    IF frame[2][1] = "VLambda"
                    THEN <<"Compute", frame[2][2], Append(frame[2][3], value), rest>>
                    ELSE <<"Error", "NonFunctionalApplication">>
               [] frame[1] = "FForce" ->
                    IF value[1] = "VDelay"
                    THEN <<"Compute", value[2], value[3], rest>>
                    ELSE <<"Error", "NonPolymorphicInstantiation">>

\* One row of the step table on Compute(term, env); Var(i) is the i-th
\* value of the environment, the last one bound first.
compute(stack, env, term) ==
    CASE term[1] = "Var" ->
            IF term[2].index \in 1..Len(env)
            THEN return_compute(stack, env[Len(env) - term[2].index + 1])
            ELSE <<"Error", "OpenTermEvaluated">>
      [] term[1] = "Lambda" -> return_compute(stack, <<"VLambda", term[3], env>>)
      [] term[1] = "Delay" -> return_compute(stack, <<"VDelay", term[2], env>>)
      [] term[1] = "Constant" -> return_compute(stack, <<"VCon", term[2]>>)
      [] term[1] = "Error" -> <<"Error", "EvaluationFailure">>
      [] term[1] = "Apply" ->
            <<"Compute", term[2], env, <<<<"FArg", term[3], env>>>> \o stack>>
      [] term[1] = "Force" -> <<"Compute", term[2], env, <<<<"FForce">>>> \o stack>>

\* Program::eval (ast.rs:598-613): Machine::new(.., initial_budget, 200) and
\* machine.run(&self.term) starts on Compute(term) with nothing bound.
Eval ==
    /\ mstate = <<"Idle">>
    /\ mstate' = <<"Compute", eval_term, <<>>, <<>>>>
    /\ UNCHANGED <<txvars, termvars, namevars, flatvars, projvars, evalvars, compvars, eval_term, ex_budget, unbudgeted_steps>>

\* One step of the machine: the cost of the step's kind is subtracted, the
\* row of the table is taken, and the budget is inspected once in every
\* Slippage steps and when the machine is done.  Error is no step kind: it
\* raises at once.
MachineStep ==
    /\ mstate[1] = "Compute"
    /\ LET term == mstate[2]
           next == compute(mstate[4], mstate[3], term)
           cost == IF term[1] = "Error" THEN [cpu |-> 0, mem |-> 0] ELSE StepCost(term[1])
           spent == [cpu |-> ex_budget.cpu - cost.cpu, mem |-> ex_budget.mem - cost.mem]
           steps == unbudgeted_steps + 1
           inspect == steps >= Slippage \/ next[1] = "Done"
       IN  /\ ex_budget' = spent
           /\ unbudgeted_steps' = IF inspect THEN 0 ELSE steps
           /\ mstate' = IF inspect /\ (spent.cpu < 0 \/ spent.mem < 0)
                        THEN <<"Error", "OutOfBudget">>
                        ELSE next
    /\ UNCHANGED <<txvars, termvars, namevars, flatvars, projvars, evalvars, compvars, eval_term>>

NextMachine ==
    \/ Eval
    \/ MachineStep

\* A program and a finite initial budget.
InitMachine ==
    /\ TxIdle /\ TermIdle /\ NameIdle /\ FlatIdle /\ ProjIdle /\ EvalIdle /\ CompIdle
    /\ eval_term \in MachinePrograms
    /\ ex_budget \in [cpu : 0..MaxBudget, mem : 0..MaxBudget]
    /\ mstate = <<"Idle">>
    /\ unbudgeted_steps = 0

SpecMachine == InitMachine /\ [][NextMachine]_vars

\* machine.run is a loop that goes on until the machine is done or raises.
SpecMachineFair == SpecMachine /\ WF_vars(NextMachine)

Halted == mstate[1] \in {"Done", "Error"}

\* C16: every evaluation started by Program::eval with a finite initial
\* budget eventually halts, with a result or with an error; each step of a
\* step kind lowers the remaining cpu by at least 1 and no step raises
\* either counter.
C16_EvalHalts ==
    /\ <>Halted
    /\ [][/\ ex_budget'.cpu <= ex_budget.cpu
          /\ ex_budget'.mem <= ex_budget.mem
          /\ (mstate[1] = "Compute" /\ mstate[2][1] # "Error")
                => ex_budget'.cpu <= ex_budget.cpu - 1]_vars

\* The diverging program (\x. x x) (\x. x x) has halted with OutOfBudget.
C16_Witness ==
    /\ eval_term[1] = "Apply"
    /\ eval_term[2] = eval_term[3]
    /\ eval_term[2][1] = "Lambda"
    /\ mstate = <<"Error", "OutOfBudget">>
    /\ ex_budget.cpu < 0

-----------------------------------------------------------------------------
(* Project::apply_parameter: crates/aiken-project/src/lib.rs:330-367 *)

\* The longest list of validators of a blueprint.
MaxValidators == 3

\* The validators of a blueprint file: title, purpose, the number of formal
\* parameters left and the program's term.  A file may hold any list, two
\* validators of the same title and purpose included.
Validators ==
    [title : {"a", "b"}, purpose : {"spend", "mint"}, parameters : 0..1,
     program : {Constant(<<"Unit">>)}]

\* The parameter applied.
Param == Constant(<<"Bool", TRUE>>)

\* Whether with_validator selects a validator: a title or a purpose that is
\* None matches every validator.
selects(title, purpose, validator) ==
    /\ title = <<>> \/ title = <<validator.title>>
    /\ purpose = <<>> \/ purpose = <<validator.purpose>>

\* validator.apply(param): the term is wrapped in an Apply node and the first
\* formal parameter is removed; it is an error when there is none to remove
\* or the parameter is rejected.
validator_apply(validator, param, fails) ==
    IF fails \/ validator.parameters = 0
    THEN <<"Err", "Blueprint">>
    ELSE <<"Ok", [validator EXCEPT !.parameters = @ - 1, !.program = Apply(@, param)]>>

\* blueprint.with_validator(title, purpose, when_too_many, when_missing, f)
\* (lib.rs:342-348): f runs on the one validator selected.
with_validator(validators, title, purpose, param, fails) ==
    LET found == {k \in 1..Len(validators) : selects(title, purpose, validators[k])} IN
    IF found = {} THEN <<"Err", "NoValidatorNotFound">>
    ELSE IF Cardinality(found) > 1 THEN <<"Err", "MoreThanOneValidatorFound">>
    ELSE validator_apply(validators[CHOOSE k \in found : TRUE], param, fails)

\* The overwrite with the purpose left out of the comparison.
overwrite_SameTitle(validators, applied_validator) ==
    [k \in 1..Len(validators) |->
        IF validators[k].title = applied_validator.title
        THEN applied_validator ELSE validators[k]]

\* lib.rs:351-364: every validator of the applied validator's title and
\* purpose is replaced by the applied validator.
overwrite(validators, applied_validator) ==
    [k \in 1..Len(validators) |->
        LET same_title == validators[k].title = applied_validator.title
            same_purpose == validators[k].purpose = applied_validator.purpose
        IN  IF same_title /\ same_purpose THEN applied_validator ELSE validators[k]]

\* apply_parameter (lib.rs:330-367).
apply_parameter(file, title, purpose, param, fails) ==
    IF file = <<>> THEN <<"Err", "InvalidOrMissingFile">>
    ELSE LET applied_validator == with_validator(file[1], title, purpose, param, fails) IN
         IF applied_validator[1] = "Err" THEN applied_validator
         ELSE <<"Ok", overwrite(file[1], applied_validator[2])>>

ApplyParameter ==
    /\ applied_blueprint = <<"none">>
    /\ applied_blueprint' =
          apply_parameter(blueprint_file, selection.title, selection.purpose, Param, apply_fails)
    /\ UNCHANGED <<txvars, termvars, namevars, flatvars, machvars, evalvars, compvars, blueprint_file,
                   selection,
                   apply_fails>>

NextApply ==
    \/ ApplyParameter

\* A blueprint file, a selection and whether the parameter is rejected.
InitApply ==
    /\ TxIdle /\ TermIdle /\ NameIdle /\ FlatIdle /\ MachIdle /\ EvalIdle /\ CompIdle
    /\ blueprint_file \in {<<>>} \cup {<<vs>> : vs \in SeqsUpTo(Validators, MaxValidators)}
    /\ selection \in [title : {<<>>, <<"a">>, <<"b">>, <<"c">>},
                      purpose : {<<>>, <<"spend">>, <<"mint">>}]
    /\ apply_fails \in BOOLEAN
    /\ applied_blueprint = <<"none">>

SpecApply == InitApply /\ [][NextApply]_vars

\* The positions of the validators the selection matches.
Selected ==
    {k \in 1..Len(blueprint_file[1]) :
        /\ selection.title \in {<<>>, <<blueprint_file[1][k].title>>}
        /\ selection.purpose \in {<<>>, <<blueprint_file[1][k].purpose>>}}

\* C17: apply_parameter returns a blueprint with the same number and order
\* of validators in which exactly the one validator selected by (title,
\* purpose) is replaced by its applied version and every other validator is
\* unchanged; when the selection matches no validator or more than one it
\* returns an error and no blueprint.
C17_ReplacesTheSelectedOne ==
    (applied_blueprint # <<"none">> /\ blueprint_file # <<>>) =>
        /\ Cardinality(Selected) # 1 => applied_blueprint[1] = "Err"
        /\ applied_blueprint[1] = "Ok" =>
              /\ Cardinality(Selected) = 1
              /\ Len(applied_blueprint[2]) = Len(blueprint_file[1])
              /\ \A k \in 1..Len(blueprint_file[1]) :
                    applied_blueprint[2][k] =
                        IF k \in Selected
                        THEN [blueprint_file[1][k] EXCEPT
                                 !.parameters = @ - 1, !.program = <<"Apply", @, Param>>]
                        ELSE blueprint_file[1][k]

\* The second of three validators, selected by its title alone among
\* validators that share its purpose, has been replaced.
C17_Witness ==
    /\ applied_blueprint[1] = "Ok"
    /\ Len(blueprint_file[1]) = 3
    /\ Selected = {2}
    /\ selection.purpose = <<>>
    /\ blueprint_file[1][1].purpose = blueprint_file[1][2].purpose
    /\ applied_blueprint[2][2] # blueprint_file[1][2]

-----------------------------------------------------------------------------
(* Project::eval_scripts: crates/aiken-project/src/lib.rs:609-693.  A      *)
(* string is the sequence of its characters.                               *)

\* The longest list of scripts handed to eval_scripts.
MaxScripts == 2

\* str::contains: sub is a substring of s.
Contains(s, sub) == \E i \in 0..(Len(s) - Len(sub)) : SubSeq(s, i + 1, i + Len(sub)) = sub

\* str::split(c): the pieces of s between the occurrences of c.
RECURSIVE SplitOn(_, _)
SplitOn(s, c) ==
    IF c \notin Range(s) THEN <<s>>
    ELSE LET i == CHOOSE k \in 1..Len(s) : s[k] = c /\ \A j \in 1..(k - 1) : s[j] # c
         IN  <<SubSeq(s, 1, i - 1)>> \o SplitOn(SubSeq(s, i + 1, Len(s)), c)

\* lib.rs:627-648: a pattern gives (match_module, match_names).  The module
\* is the piece before the first '.' when the pattern holds a '.' or a '/',
\* else ""; the names are the next piece of the same iterator, braces
\* removed and split at ',', or None when there is no next piece.
parse_match_test(match_test) ==
    LET pieces == SplitOn(match_test, ".")
        qualified == "." \in Range(match_test) \/ "/" \in Range(match_test)
        rest == IF qualified THEN Tail(pieces) ELSE pieces
    IN  [module |-> IF qualified THEN pieces[1] ELSE <<>>,
         names |-> IF rest = <<>> THEN <<>>
                   ELSE <<SplitOn(SelectSeq(rest[1], LAMBDA ch : ch \notin {"{", "}"}), ",")>>]

\* The closure of the filter with exact_match left out: a name matches as a
\* substring.
script_matches_Substring(script, match_test, exact) ==
    LET m == parse_match_test(match_test) IN
    /\ m.module = <<>> \/ Contains(script.module, m.module)
    /\ m.names = <<>> \/ \E k \in 1..Len(m.names[1]) : Contains(script.name, m.names[1][k])

\* lib.rs:653-667: the closure of the filter, for one pattern.
script_matches(script, match_test, exact) ==
    LET m == parse_match_test(match_test)
        matched_module == m.module = <<>> \/ Contains(script.module, m.module)
        matched_name ==
            \/ m.names = <<>>
            \/ \E k \in 1..Len(m.names[1]) :
                  IF exact THEN m.names[1][k] = script.name
                  ELSE Contains(script.name, m.names[1][k])
    IN  matched_module /\ matched_name

\* lib.rs:624-671: the scripts evaluated, in the order of the argument.
filter_scripts(ss, tests, exact) ==
    IF tests = <<>> THEN ss
    ELSE SelectSeq(ss, LAMBDA script :
             \E k \in 1..Len(tests[1]) : script_matches(script, tests[1][k], exact))

\* lib.rs:619-622: ExBudget { mem: i64::MAX, cpu: i64::MAX }, at the model's width.
InitialBudget == [cpu |-> Pow2(BudgetBits - 1) - 1, mem |-> Pow2(BudgetBits - 1) - 1]

\* Script { module, name, program, .. }: the tests of a project.  A program
\* is given by what it does when evaluated: its result, the units it
\* consumes and its logs; OutOfBudget consumes more than the whole budget.
Scripts ==
    LET Script(module, name, res, cost, logs) ==
            [module |-> module, name |-> name,
             program |-> [result |-> res, cost |-> cost, logs |-> logs]]
    IN  { Script(<<"m">>, <<"t">>, <<"Ok", Constant(<<"Bool", TRUE>>)>>, 2, <<>>),
          Script(<<"m">>, <<"t", "u">>, <<"Ok", Constant(<<"Bool", FALSE>>)>>, 1, <<"l">>),
          Script(<<"a", "/", "m">>, <<"t">>, <<"Err", "EvaluationFailure">>, 2, <<"l">>),
          Script(<<"a", "/", "m">>, <<"u">>, <<"Ok", Constant(<<"Unit">>)>>, 3, <<"l">>),
          Script(<<"a">>, <<"u">>, <<"Err", "OutOfBudget">>, InitialBudget.cpu + 1, <<>>),
          Script(<<"a">>, <<"u", "t">>, <<"Ok", ErrorTerm>>, 1, <<>>) }

\* The lists of patterns given as match_tests.
MatchTests ==
    LET patterns == { <<"m">>, <<"t">>, <<"u">>, <<"m", ".", "t">>, <<"a", "/", "m">>,
                      <<"a", "/", "m", ".", "u">>, <<"m", ".", "{", "t", ",", "u", "}">>,
                      <<"{", "t", ",", "u", "}">>, <<".", "t">>, <<"m", ".">>,
                      <<"a", ".", "u", ".", "t">>, <<"/">>, <<"x">>, <<>> }
    IN  {<<>>, <<<<>>>>} \cup {<<<<p>>>> : p \in patterns}
        \cup {<<<<<<"x">>, p>>>> : p \in {<<"t">>, <<"a", "/", "m">>}}

\* script.program.eval(initial_budget) (ast.rs:597-616): result, remaining
\* budget and logs.
eval(program, budget) ==
    [result |-> program.result,
     remaining_budget |-> [cpu |-> budget.cpu - program.cost, mem |-> budget.mem - program.cost],
     logs |-> program.logs]

\* The body of the map with success decided by Term::Error alone.
eval_info_NotError(script, budget) ==
    LET r == eval(script.program, budget) IN
    [success |-> r.result[1] = "Ok" /\ r.result[2] # ErrorTerm,
     script |-> script,
     spent_budget |-> [cpu |-> InitialBudget.cpu - r.remaining_budget.cpu,
                       mem |-> InitialBudget.mem - r.remaining_budget.mem],
     output |-> IF r.result[1] = "Ok" THEN <<r.result[2]>> ELSE <<>>,
     logs |-> r.logs]

\* lib.rs:675-691: the EvalInfo of one script.
eval_info(script, budget) ==
    LET r == eval(script.program, budget)
        spent_budget == [cpu |-> InitialBudget.cpu - r.remaining_budget.cpu,
                         mem |-> InitialBudget.mem - r.remaining_budget.mem]
    IN  IF r.result[1] = "Ok"
        THEN [success |-> r.result[2] # ErrorTerm /\ r.result[2] # Constant(<<"Bool", FALSE>>),
              script |-> script, spent_budget |-> spent_budget,
              output |-> <<r.result[2]>>, logs |-> r.logs]
        ELSE [success |-> FALSE, script |-> script, spent_budget |-> spent_budget,
              output |-> <<>>, logs |-> r.logs]

\* The budget of an evaluation if the evaluations drew on one budget.
eval_budget_Shared(slots) ==
    LET spent == {slots[k][1].spent_budget.cpu : k \in {j \in 1..Len(slots) : slots[j] # <<>>}}
        most == IF spent = {} THEN 0 ELSE CHOOSE c \in spent : \A d \in spent : d <= c
    IN  [cpu |-> InitialBudget.cpu - most, mem |-> InitialBudget.mem - most]

\* lib.rs:675: every evaluation is handed its own copy of initial_budget.
eval_budget(slots) == InitialBudget

\* lib.rs:624-671: the filter; the parallel iterator then has one job per
\* script left.
FilterScripts ==
    /\ eval_pc = "filter"
    /\ selected' = filter_scripts(scripts, match_tests, exact_match)
    /\ infos' = [k \in 1..Len(selected') |-> <<>>]
    /\ eval_pc' = "par"
    /\ UNCHANGED <<txvars, termvars, namevars, flatvars, machvars, projvars, compvars, scripts, match_tests,
                   exact_match, finished, returned>>

\* lib.rs:673-691: the job of one script, run by any thread at any time.
EvalScript ==
    /\ eval_pc = "par"
    /\ \E k \in 1..Len(selected) :
          /\ infos[k] = <<>>
          /\ infos' = [infos EXCEPT ![k] = <<eval_info(selected[k], eval_budget(infos))>>]
          /\ finished' = Append(finished, k)
    /\ UNCHANGED <<txvars, termvars, namevars, flatvars, machvars, projvars, compvars, scripts, match_tests,
                   exact_match, eval_pc, selected, returned>>

\* lib.rs:692: collect() of the indexed parallel iterator gives the results
\* in the order of the scripts, once every job has ended.
Collect ==
    /\ eval_pc = "par"
    /\ \A k \in 1..Len(infos) : infos[k] # <<>>
    /\ returned' = <<[k \in 1..Len(infos) |-> infos[k][1]]>>
    /\ eval_pc' = "returned"
    /\ UNCHANGED <<txvars, termvars, namevars, flatvars, machvars, projvars, compvars, scripts, match_tests,
                   exact_match, selected, infos, finished>>

NextScripts ==
    \/ FilterScripts
    \/ EvalScript
    \/ Collect

\* The arguments of eval_scripts.
InitScripts ==
    /\ TxIdle /\ TermIdle /\ NameIdle /\ FlatIdle /\ MachIdle /\ ProjIdle /\ CompIdle
    /\ scripts \in SeqsUpTo(Scripts, MaxScripts)
    /\ match_tests \in MatchTests
    /\ exact_match \in BOOLEAN
    /\ eval_pc = "filter"
    /\ selected = <<>>
    /\ infos = <<>>
    /\ finished = <<>>
    /\ returned = <<>>

SpecScripts == InitScripts /\ [][NextScripts]_vars

C19_ParallelAsAlone ==
    returned # <<>> =>
        /\ Len(returned[1]) = Len(selected)
        /\ \A k \in 1..Len(selected) :
              /\ returned[1][k].script = selected[k]
              /\ returned[1][k] = eval_info(selected[k], InitialBudget)

\* The second script ended first and the results are in the order of the
\* scripts.
C19_Witness ==
    /\ returned # <<>>
    /\ finished = <<2, 1>>
    /\ selected[1] # selected[2]
    /\ returned[1][1].spent_budget.cpu > 0
    /\ returned[1][2].spent_budget # returned[1][1].spent_budget

\* The names of a piece of a pattern: braces removed, split at ','.
NamesOf(piece) == Range(SplitOn(SelectSeq(piece, LAMBDA ch : ch \notin {"{", "}"}), ","))

\* Whether a pattern selects a script: 'M.{n1,n2}' selects the scripts whose
\* module contains M and whose name matches n1 or n2; a pattern with a '/'
\* and no '.' selects every test of the modules whose name contains it; any
\* other pattern selects by test name in any module.  A name matches by
\* equality when exact_match, else as a substring.
PatternSelects(pattern, script) ==
    LET NameMatches(n) == IF exact_match THEN n = script.name ELSE Contains(script.name, n) IN
    IF "." \in Range(pattern)
    THEN /\ Contains(script.module, SplitOn(pattern, ".")[1])
         /\ \E n \in NamesOf(SplitOn(pattern, ".")[2]) : NameMatches(n)
    ELSE IF "/" \in Range(pattern)
    THEN Contains(script.module, pattern)
    ELSE \E n \in NamesOf(pattern) : NameMatches(n)

\* C20: eval_scripts evaluates a script exactly when match_tests is None or
\* at least one pattern selects it, and the scripts evaluated are neither
\* reordered nor duplicated.
C20_EvaluatesTheMatching ==
    returned # <<>> =>
        [k \in 1..Len(returned[1]) |-> returned[1][k].script] =
            SelectSeq(scripts, LAMBDA script :
                \/ match_tests = <<>>
                \/ \E k \in 1..Len(match_tests[1]) : PatternSelects(match_tests[1][k], script))

\* With exact_match, the pattern m.{t,u} kept the test t of module m and
\* dropped the test tu that follows it.
C20_Witness ==
    /\ returned # <<>>
    /\ exact_match
    /\ match_tests = <<<<<<"m", ".", "{", "t", ",", "u", "}">>>>>>
    /\ Len(scripts) = 2
    /\ scripts[2].name = <<"t", "u">>
    /\ Len(returned[1]) = 1
    /\ returned[1][1].script = scripts[1]

-----------------------------------------------------------------------------
(* Project::compile: compile_deps, read_source_files, parse_sources,       *)
(* type_check and the code generation mode (aiken-project lib.rs 153-281,  *)
(* 369-472)                                                                *)

MaxCompiles == 2
MaxTests == 2

\* A path is <<directory, file name without the extension>>; module_name
\* strips the directory and the extension (lib.rs 711-748).
module_name(path) == path[2]

ProjectPaths == <<<<"validators", "a">>, <<"lib", "a">>, <<"lib", "b">>>>
PackagePaths == <<<<"build/packages/p/lib", "a">>>>
ModuleNames == {module_name(path) : path \in Range(ProjectPaths) \cup Range(PackagePaths)}

\* The sources a directory walk can push: distinct paths, each with code that
\* the parser accepts or rejects.
SourcesOf(paths) ==
    LET Source == [path : Range(paths), parses : BOOLEAN]
        Named(fs) == [k \in 1..Len(fs) |->
                        [name |-> module_name(fs[k].path), path |-> fs[k].path,
                         parses |-> fs[k].parses]]
    IN  {Named(fs) : fs \in {gs \in SeqsUpTo(Source, Len(paths)) :
                                \A i, j \in 1..Len(gs) : gs[i].path = gs[j].path => i = j}}

\* read_source_files walks validators before lib (lib.rs 397-405).
ValidatorsFirst(fs) ==
    \A i, j \in 1..Len(fs) : (fs[i].path[1] = "validators" /\ fs[j].path[1] = "lib") => i < j

\* The loop of parse_sources over the drained sources (lib.rs 417-471): a
\* source that parses is registered in defined_modules, and a name that was
\* registered already returns DuplicateModule at once; a source that does not
\* parse adds its errors.  drain(0..) leaves self.sources empty on every
\* return.
RECURSIVE parse_loop(_, _, _)
parse_loop(defined, srcs, errors) ==
    IF srcs = <<>>
    THEN [result |-> IF errors = <<>> THEN <<"Ok">> ELSE <<"Err", "List", errors>>,
          defined_modules |-> defined, sources |-> <<>>]
    ELSE LET src == Head(srcs)
             inserted == [defined EXCEPT ![src.name] = <<src.path>>]
         IN  IF src.parses
             THEN IF defined[src.name] # <<>>
                  THEN [result |-> <<"Err", "DuplicateModule", src.name,
                                     defined[src.name][1], src.path>>,
                        defined_modules |-> inserted, sources |-> <<>>]
                  ELSE parse_loop(inserted, Tail(srcs), errors)
             ELSE parse_loop(defined, Tail(srcs), Append(errors, <<"Parse", src.path>>))

\* parse_sources that looks for duplicates among the drained sources only.
parse_sources_Fresh(defined, srcs) ==
    LET r == parse_loop([n \in ModuleNames |-> <<>>], srcs, <<>>)
    IN  [r EXCEPT !.defined_modules =
            [n \in ModuleNames |-> IF r.defined_modules[n] # <<>> THEN r.defined_modules[n]
                                   ELSE defined[n]]]

parse_sources(defined, srcs) == parse_loop(defined, srcs, <<>>)

\* The errors of the test mode (lib.rs 254-270): one TestFailure for each
\* result whose success is false, in the order of the results.  A test is
\* named by its position.
RECURSIVE failures_from(_, _)
failures_from(results, k) ==
    IF k > Len(results) THEN <<>>
    ELSE IF results[k] THEN failures_from(results, k + 1)
         ELSE <<<<"TestFailure", k>>>> \o failures_from(results, k + 1)

\* Test errors that stop at the first failure.
test_errors_First(results) ==
    IF \E k \in 1..Len(results) : ~results[k]
    THEN <<<<"TestFailure", CHOOSE k \in 1..Len(results) :
                ~results[k] /\ \A j \in 1..(k - 1) : results[j]>>>>
    ELSE <<>>

test_errors(results) == failures_from(results, 1)

\* A call that returned: its result, whether it passed type checking, and
\* <<the results eval_scripts returned>> when it evaluated tests.
CompileCall(res, checked, evaluated) ==
    [result |-> res, type_checked |-> checked, evaluated |-> evaluated]

\* build or check calls compile (lib.rs 109-115, 154-174); compile_deps
\* runs first (lib.rs 196).
Compile ==
    /\ comp_pc = <<"idle">>
    /\ defined_modules # <<>>
    /\ Len(calls) < MaxCompiles
    /\ comp_pc' = <<"deps", "read">>
    /\ UNCHANGED <<txvars, termvars, namevars, flatvars, machvars, projvars, evalvars, files,
                   dep_files, type_ok, code_gen_mode, test_results, defined_modules, sources,
                   last_parse, calls>>

\* read_package_source_files (lib.rs 387) or read_source_files (lib.rs 205):
\* every file found is pushed to self.sources.
ReadSourceFiles ==
    /\ Len(comp_pc) = 2
    /\ comp_pc[2] = "read"
    /\ sources' = sources \o (IF comp_pc[1] = "deps" THEN dep_files ELSE files)
    /\ comp_pc' = <<comp_pc[1], "parse">>
    /\ UNCHANGED <<txvars, termvars, namevars, flatvars, machvars, projvars, evalvars, files,
                   dep_files, type_ok, code_gen_mode, test_results, defined_modules, last_parse,
                   calls>>

\* parse_sources (lib.rs 389, 207) and the ? that returns its error.
ParseSources ==
    /\ Len(comp_pc) = 2
    /\ comp_pc[2] = "parse"
    /\ LET r == parse_sources(defined_modules, sources)
       IN  /\ defined_modules' = r.defined_modules
           /\ sources' = r.sources
           /\ last_parse' = <<[defined |-> defined_modules, sources |-> sources,
                               result |-> r.result]>>
           /\ IF r.result = <<"Ok">>
              THEN /\ comp_pc' = <<comp_pc[1], "check">>
                   /\ UNCHANGED calls
              ELSE /\ comp_pc' = <<"idle">>
                   /\ calls' = Append(calls, CompileCall(r.result, FALSE, <<>>))
    /\ UNCHANGED <<txvars, termvars, namevars, flatvars, machvars, projvars, evalvars, files,
                   dep_files, type_ok, code_gen_mode, test_results>>

\* type_check (lib.rs 391, 209) and the ? that returns its error.
TypeCheck ==
    /\ Len(comp_pc) = 2
    /\ comp_pc[2] = "check"
    /\ IF type_ok
       THEN /\ comp_pc' = IF comp_pc[1] = "deps" THEN <<"project", "read">>
                          ELSE <<"project", "gen">>
            /\ UNCHANGED calls
       ELSE /\ comp_pc' = <<"idle">>
            /\ calls' = Append(calls, CompileCall(<<"Err", "Type">>, FALSE, <<>>))
    /\ UNCHANGED <<txvars, termvars, namevars, flatvars, machvars, projvars, evalvars, files,
                   dep_files, type_ok, code_gen_mode, test_results, defined_modules, sources,
                   last_parse>>

\* match options.code_gen_mode (lib.rs 211-281): Build writes the blueprint
\* unless Blueprint::new fails, Test evaluates the collected tests and
\* returns their failures, NoOp returns Ok.
CodeGen ==
    /\ Len(comp_pc) = 2
    /\ comp_pc[2] = "gen"
    /\ \E blueprint_ok \in BOOLEAN :
        calls' = Append(calls,
            CASE code_gen_mode = "Build" ->
                    CompileCall(IF blueprint_ok THEN <<"Ok">> ELSE <<"Err", "Blueprint">>,
                                TRUE, <<>>)
              [] code_gen_mode = "Test" ->
                    LET errors == test_errors(test_results)
                    IN  CompileCall(IF errors # <<>> THEN <<"Err", "List", errors>> ELSE <<"Ok">>,
                                 TRUE, <<test_results>>)
              [] code_gen_mode = "NoOp" -> CompileCall(<<"Ok">>, TRUE, <<>>))
    /\ comp_pc' = <<"idle">>
    /\ UNCHANGED <<txvars, termvars, namevars, flatvars, machvars, projvars, evalvars, files,
                   dep_files, type_ok, code_gen_mode, test_results, defined_modules, sources,
                   last_parse>>

NextCompile == \/ Compile \/ ReadSourceFiles \/ ParseSources \/ TypeCheck \/ CodeGen

\* A new Project (lib.rs 80-107): no module is defined and no source is
\* pending.  The files on disk, the options and the outcome of the tests do
\* not change between the calls; tests come from modules.
InitCompile ==
    /\ TxIdle /\ TermIdle /\ NameIdle /\ FlatIdle /\ MachIdle /\ ProjIdle /\ EvalIdle
    /\ files \in {fs \in SourcesOf(ProjectPaths) : ValidatorsFirst(fs)}
    /\ dep_files \in SourcesOf(PackagePaths)
    /\ type_ok \in BOOLEAN
    /\ code_gen_mode \in {"Build", "Test", "NoOp"}
    /\ test_results \in SeqsUpTo(BOOLEAN, MaxTests)
    /\ test_results # <<>> =>
        /\ code_gen_mode = "Test"
        /\ \E k \in 1..Len(files) : files[k].parses
    /\ defined_modules = [n \in ModuleNames |-> <<>>]
    /\ sources = <<>>
    /\ comp_pc = <<"idle">>
    /\ last_parse = <<>>
    /\ calls = <<>>

SpecCompile == InitCompile /\ [][NextCompile]_vars

\* C21: compile is repeatable on one Project: when a call of compile
\* succeeded, the next call, with the sources unchanged, succeeds too.
C21_CompileRepeatable ==
    \A k \in 1..(Len(calls) - 1) :
        calls[k].result = <<"Ok">> => calls[k + 1].result = <<"Ok">>

\* C22: parse_sources returns DuplicateModule{module, first, second} whenever
\* a source that parses has a name that is registered already, by a module
\* compiled before or by an earlier source of the same call; first is the path
\* registered earlier and second the path of the later source.  Once
\* parse_sources has returned, with or without an error, no source is pending.
C22_DuplicateModuleReported ==
    last_parse # <<>> =>
        LET p == last_parse[1]
            Earlier(i) == {j \in 1..(i - 1) :
                            p.sources[j].parses /\ p.sources[j].name = p.sources[i].name}
            dups == {i \in 1..Len(p.sources) :
                        /\ p.sources[i].parses
                        /\ (p.defined[p.sources[i].name] # <<>> \/ Earlier(i) # {})}
        IN  /\ dups # {} =>
                LET i == CHOOSE d \in dups : \A e \in dups : d <= e
                    first == IF Earlier(i) # {}
                             THEN p.sources[CHOOSE j \in Earlier(i) :
                                                \A e \in Earlier(i) : e <= j].path
                             ELSE p.defined[p.sources[i].name][1]
                IN  p.result = <<"Err", "DuplicateModule", p.sources[i].name, first,
                                 p.sources[i].path>>
            /\ dups = {} => (p.result = <<"Ok">> \/ p.result[2] = "List")
            /\ (comp_pc = <<"idle">> \/ comp_pc[2] # "parse") => sources = <<>>

\* A source of the project has the name of a module of the dependency that
\* was compiled before: DuplicateModule names the dependency's path first.
C22_Witness ==
    /\ comp_pc = <<"idle">>
    /\ last_parse # <<>>
    /\ Len(last_parse[1].sources) > 1
    /\ last_parse[1].defined["a"] = <<<<"build/packages/p/lib", "a">>>>
    /\ last_parse[1].result = <<"Err", "DuplicateModule", "a", <<"build/packages/p/lib", "a">>,
                                <<"lib", "a">>>>
    /\ sources = <<>>

\* C23: in test mode a call that reaches the tests returns Ok exactly when
\* every evaluated test succeeded (also when there is none), and otherwise
\* Err(List(errors)) with one TestFailure for each failing test, in the order
\* of the results.  With skip_tests (NoOp) no test is evaluated and the call
\* returns Ok once type checking passed.
C23_TestModeResult ==
    \A k \in 1..Len(calls) :
        LET call == calls[k]
            failing == {i \in 1..Len(test_results) : ~test_results[i]}
        IN  /\ (code_gen_mode = "Test" /\ call.type_checked) =>
                /\ call.evaluated = <<test_results>>
                /\ call.result = <<"Ok">> <=> failing = {}
                /\ failing # {} =>
                    /\ Len(call.result) = 3
                    /\ call.result[1] = "Err"
                    /\ call.result[2] = "List"
                    /\ Len(call.result[3]) = Cardinality(failing)
                    /\ \A j \in 1..Len(call.result[3]) :
                        /\ call.result[3][j][1] = "TestFailure"
                        /\ call.result[3][j][2] \in failing
                        /\ \A h \in 1..(j - 1) : call.result[3][h][2] < call.result[3][j][2]
            /\ code_gen_mode = "NoOp" =>
                /\ call.evaluated = <<>>
                /\ call.type_checked => call.result = <<"Ok">>

\* Every test failed: the call returned one TestFailure for each, in order.
C23_Witness ==
    /\ code_gen_mode = "Test"
    /\ Len(calls) = 1
    /\ calls[1].type_checked
    /\ Len(test_results) = MaxTests
    /\ \A i \in 1..Len(test_results) : ~test_results[i]
    /\ Len(calls[1].result[3]) = MaxTests

-----------------------------------------------------------------------------
(* The budget cast of eval_phase_two_raw and the hash of Name *)

\* C24: eval_phase_two_raw hands the machine an initial budget whose cpu and
\* mem are never negative: the unsigned value itself, or 2^63 - 1 when the
\* value is larger (at the model's width: a value of 0..2^(BudgetBits-1) - 1).
C24_RawBudgetNeverNegative ==
    (entry = "raw" /\ pc = "start") =>
        /\ initial_budget[1].cpu \in 0..(Pow2(BudgetBits - 1) - 1)
        /\ initial_budget[1].mem \in 0..(Pow2(BudgetBits - 1) - 1)

\* C25: Hash is consistent with equality for Name: a == b implies
\* hash(a) == hash(b).
C25_HashConsistentWithEq ==
    (lhs \in Names /\ eq_out = <<TRUE>> /\ hash_out # <<>>) => hash_out[1] = hash_out[2]

=============================================================================
